---- MODULE Spec2Model ----
(***************************************************************************)
(* Model of the webcam attendance system:                                  *)
(*   - DatabaseManager.mark_attendance over the attendance table           *)
(*     (src/database/database_manager.py), run by several workers whose    *)
(*     SELECT and INSERT/UPDATE statements interleave;                     *)
(*   - FaceRecognizer (src/face_module/face_recognizer.py): matching of a  *)
(*     probe against the known faces, the recognized_today dedup set, the  *)
(*     webcam loop and its on_recognition callback, which the CLI binds to *)
(*     mark_attendance (src/ui/cli_interface.py).                          *)
(*                                                                         *)
(* Timestamps are clock ticks; the calendar date of a tick t is            *)
(* t \div TicksPerDay.  Face encodings are points on a line, so that the   *)
(* Euclidean distance of two encodings is the absolute difference; one     *)
(* unit of distance stands for 0.2.                                        *)
(***************************************************************************)
EXTENDS Integers, Sequences, FiniteSets, TLC

(***************************************************************************)
(* Bounds of the model                                                     *)
(***************************************************************************)
MaxPeople == 2
TicksPerDay == 2
MaxClock == 3
MaxCalls == 2
MaxEnc == 6
MaxFaces == 1
MaxFrames == 2

(***************************************************************************)
(* Program constants, in units of 0.2                                      *)
(***************************************************************************)
\* FaceRecognizer.__init__(..., tolerance: float = 0.6)
DefaultTolerance == 3
\* the 1 of "confidence = 1 - face_distances[best_match_index]"
One == 5
\* recognize_faces_from_webcam(..., process_every_n_frames: int = 2)
DefaultStride == 2

(***************************************************************************)
(* Values                                                                  *)
(***************************************************************************)
\* Python's None, for a timestamp column or argument
NoneT == 0 - 1

\* history value: nothing was written yet for a (person_id, date)
Unwritten == 0 - 2

PersonIds == 1..MaxPeople
Times == 0..MaxClock
\* the processes that call mark_attendance on the one database file
Workers == {"w1", "w2"}

\* person_id = None
NoneId == 0

\* face encodings and probes
Encs == 0..MaxEnc

\* tolerances a recognizer is constructed with: exact matches only, the
\* default, and one above 1
Tolerances == {0, DefaultTolerance, One + 1}

\* values of process_every_n_frames: every frame, and the default
Strides == {1, DefaultStride}

\* people.name of the person with a given id
PersonName(id) == <<"Alice", "Bob", "Carol", "Dave">>[id]

\* date.today() / the calendar date of a timestamp
DateOf(t) == t \div TicksPerDay

Dates == {DateOf(t) : t \in Times}

VARIABLES
    now,            \* the wall clock (datetime.now())
    attendance,     \* rows of the attendance table
    attendance_seq, \* AUTOINCREMENT counter of attendance.id
    call,           \* per worker: the mark_attendance call in progress
    ret,            \* per worker: what its last completed call returned
    calls,          \* number of mark_attendance calls started
    reachable,      \* the database can be reached: its statements execute
    people,         \* rows of the people table
    people_seq,     \* AUTOINCREMENT counter of people.id
    admin,          \* the last add_person or remove_person call and its result
    created,        \* history: successful INSERTs per (person_id, date)
    first_written,  \* history: timestamp of the first write per (person_id, date)
    last_written    \* history: timestamp of the latest later write per (person_id, date)

storeVars ==
    <<now, attendance, attendance_seq, call, ret, calls, reachable, people, people_seq,
      admin, created, first_written, last_written>>

VARIABLES
    known_face_encodings,  \* FaceRecognizer.known_face_encodings
    known_face_ids,        \* FaceRecognizer.known_face_ids
    known_face_names,      \* FaceRecognizer.known_face_names
    tolerance,             \* FaceRecognizer.tolerance
    recognized_today       \* FaceRecognizer.recognized_today

recVars == <<known_face_encodings, known_face_ids, known_face_names, tolerance, recognized_today>>

VARIABLES
    last_probe,   \* the face encoding last matched in the webcam loop
    last_match,   \* its (name, person_id), as drawn on the frame
    frame_faces,  \* the face encodings of the last recognize_face_from_frame call
    results,      \* what that call returned
    exception     \* an exception escaped from the recognizer

matchVars == <<last_probe, last_match, frame_faces, results, exception>>

VARIABLES
    cam,              \* recognize_faces_from_webcam: pc, on_recognition,
                      \* process_every_n_frames, frame_count; and analyzed,
                      \* history: the frames of this run that were analyzed
    frames,           \* history: frames captured by the recognizer's loops
    matched,          \* history: accepted matches per id processed with a callback
                      \* supplied, since construction or the last reset
    notified,         \* history: on_recognition calls per id, since then
    notified_total,   \* history: on_recognition calls per id, ever
    epochs,           \* history: per id, the periods between resets in which
                      \* it was matched with a callback supplied
    first_match_at,   \* history: clock at the first such match since then
    accepted,         \* history: the ids of the accepted matches since then,
                      \* with or without a callback
    failed,           \* history: the ids whose callback's mark_attendance
                      \* returned False or raised since then
    summary           \* the "Total recognized" printed when the loop last ended

sessVars == <<cam, frames, matched, notified, notified_total, epochs, first_match_at,
              accepted, failed, summary>>

vars == <<storeVars, recVars, matchVars, sessVars>>

(***************************************************************************)
(* The attendance table                                                    *)
(***************************************************************************)
\* SELECT ... FROM attendance WHERE person_id = ? AND date = ?
RowsFor(att, person_id, d) == {r \in att : r.person_id = person_id /\ r.date = d}

\* UNIQUE(person_id, date): may a row for (person_id, d) be inserted?
UniqueNoCheck(att, person_id, d) == TRUE

UniqueOk(att, person_id, d) == RowsFor(att, person_id, d) = {}

\* INSERT INTO attendance (person_id, date, time_in, status) VALUES (?, ?, ?, 'present')
NewRowTimeOutSet(id, person_id, d, t) ==
    [id |-> id, person_id |-> person_id, date |-> d,
     time_in |-> t, time_out |-> t, status |-> "present"]

NewRow(id, person_id, d, t) ==
    [id |-> id, person_id |-> person_id, date |-> d,
     time_in |-> t, time_out |-> NoneT, status |-> "present"]

\* UPDATE attendance SET time_out = ? (one row)
Max2(a, b) == IF a >= b THEN a ELSE b
Min2(a, b) == IF a <= b THEN a ELSE b

UpdateRowChrono(r, t) ==
    [r EXCEPT !.time_in = Min2(r.time_in, t), !.time_out = Max2(r.time_in, t)]

UpdateRowEarlierIn(r, t) ==
    IF t < r.time_in THEN [r EXCEPT !.time_in = t] ELSE [r EXCEPT !.time_out = t]

UpdateRow(r, t) == [r EXCEPT !.time_out = t]

\* UPDATE ... WHERE person_id = ? AND date = ?
UpdateRows(att, person_id, d, t) ==
    {IF r.person_id = person_id /\ r.date = d THEN UpdateRow(r, t) ELSE r : r \in att}

(***************************************************************************)
(* DatabaseManager.mark_attendance, in two steps: the SELECT and the write *)
(***************************************************************************)
IdleCall == [pc |-> "idle", person_id |-> 0, time_in |-> NoneT, today |-> 0, existing |-> FALSE]

\* lines 152-162: default of time_in, today, the SELECT and fetchone()
SelectStepByTimeIn(att, clock, person_id, time_in) ==
    LET t == IF time_in = NoneT THEN clock ELSE time_in IN
    [pc |-> "selected", person_id |-> person_id, time_in |-> t, today |-> DateOf(t),
     existing |-> RowsFor(att, person_id, DateOf(t)) # {}]

SelectStep(att, clock, person_id, time_in) ==
    [pc |-> "selected", person_id |-> person_id,
     time_in |-> IF time_in = NoneT THEN clock ELSE time_in,
     today |-> DateOf(clock),
     existing |-> RowsFor(att, person_id, DateOf(clock)) # {}]

\* lines 164-176: what the write does on a reachable database: "update",
\* "insert", or "conflict" when the INSERT raises sqlite3.IntegrityError
WriteKind(att, c) ==
    IF c.existing THEN "update"
    ELSE IF UniqueOk(att, c.person_id, c.today) THEN "insert"
    ELSE "conflict"

\* the same on the store st: "unavailable" when the database cannot be
\* reached and execute raises sqlite3.OperationalError
Outcome(st, c) == IF st.reachable THEN WriteKind(st.attendance, c) ELSE "unavailable"

\* "except Exception as e": is the error of a failed statement caught?
CatchesNothing(k) == FALSE

Catches(k) == TRUE

\* lines 179-182: what the call returns; "Raised" stands for an exception
\* that leaves mark_attendance
RetOf(k) ==
    IF k \in {"update", "insert"} THEN "True"
    ELSE IF Catches(k) THEN "False"
    ELSE "Raised"

WriteAtt(att, seq, c) ==
    LET k == WriteKind(att, c) IN
    IF k = "update" THEN UpdateRows(att, c.person_id, c.today, c.time_in)
    ELSE IF k = "insert" THEN att \cup {NewRow(seq + 1, c.person_id, c.today, c.time_in)}
    ELSE att

WriteRet(st, c) == RetOf(Outcome(st, c))

Key(c) == <<c.person_id, c.today>>

\* the store: the table, its id counter, whether the database can be
\* reached, and the history kept with them
Store ==
    [attendance |-> attendance, attendance_seq |-> attendance_seq, reachable |-> reachable,
     created |-> created, first_written |-> first_written, last_written |-> last_written]

\* lines 164-179 applied to the store st by the call c
ApplyWrite(st, c) ==
    LET k == Outcome(st, c)
        applied == k \in {"update", "insert"}
    IN
    [attendance |-> IF applied
                    THEN WriteAtt(st.attendance, st.attendance_seq, c)
                    ELSE st.attendance,
     attendance_seq |-> IF k = "insert" THEN st.attendance_seq + 1 ELSE st.attendance_seq,
     reachable |-> st.reachable,
     created |-> IF k = "insert"
                 THEN [st.created EXCEPT ![Key(c)] = @ + 1]
                 ELSE st.created,
     first_written |-> IF applied /\ st.first_written[Key(c)] = Unwritten
                       THEN [st.first_written EXCEPT ![Key(c)] = c.time_in]
                       ELSE st.first_written,
     last_written |-> IF applied /\ st.first_written[Key(c)] # Unwritten
                      THEN [st.last_written EXCEPT ![Key(c)] = c.time_in]
                      ELSE st.last_written]

\* the table and its history become those of the record st
StoreBecomes(st) ==
    /\ attendance' = st.attendance
    /\ attendance_seq' = st.attendance_seq
    /\ created' = st.created
    /\ first_written' = st.first_written
    /\ last_written' = st.last_written

\* a whole mark_attendance call that no other call interleaves with: the
\* store it leaves, and what it returns
mark_attendance(st, clock, person_id, time_in) ==
    ApplyWrite(st, SelectStep(st.attendance, clock, person_id, time_in))

MarkReturns(st, clock, person_id, time_in) ==
    WriteRet(st, SelectStep(st.attendance, clock, person_id, time_in))

Tick ==
    /\ now < MaxClock
    /\ now' = now + 1
    /\ UNCHANGED <<attendance, attendance_seq, call, ret, calls, reachable, people,
                   people_seq, admin, created, first_written, last_written>>

\* lines 151-162; on a database that cannot be reached the SELECT raises and
\* the call ends in the except clause
BeginMark(w, person_id, time_in) ==
    /\ call[w].pc = "idle"
    /\ calls < MaxCalls
    /\ call' = IF reachable
               THEN [call EXCEPT ![w] = SelectStep(attendance, now, person_id, time_in)]
               ELSE call
    /\ ret' = [ret EXCEPT ![w] = IF reachable THEN "None" ELSE RetOf("unavailable")]
    /\ calls' = calls + 1
    /\ UNCHANGED <<now, attendance, attendance_seq, reachable, people, people_seq, admin,
                   created, first_written, last_written>>

\* lines 164-182
FinishMark(w) ==
    /\ call[w].pc = "selected"
    /\ StoreBecomes(ApplyWrite(Store, call[w]))
    /\ ret' = [ret EXCEPT ![w] = WriteRet(Store, call[w])]
    /\ call' = [call EXCEPT ![w] = IdleCall]
    /\ UNCHANGED <<now, calls, reachable, people, people_seq, admin>>

\* the database becomes unreachable (locked, disk or file gone), or
\* reachable again
SetReachable(up) ==
    /\ reachable # up
    /\ reachable' = up
    /\ UNCHANGED <<now, attendance, attendance_seq, call, ret, calls, people, people_seq,
                   admin, created, first_written, last_written>>

StoreInit ==
    /\ now = 0
    /\ attendance = {}
    /\ attendance_seq = 0
    /\ call = [w \in Workers |-> IdleCall]
    /\ ret = [w \in Workers |-> "None"]
    /\ calls = 0
    /\ reachable = TRUE
    /\ created = [k \in PersonIds \X Dates |-> 0]
    /\ first_written = [k \in PersonIds \X Dates |-> Unwritten]
    /\ last_written = [k \in PersonIds \X Dates |-> NoneT]

(***************************************************************************)
(* FaceRecognizer: construction and matching                               *)
(***************************************************************************)
\* lists of (person_id, name, face_encoding) as get_all_face_encodings
\* returns them: ids are distinct, in any order
IdLists(person_ids) ==
    {ids \in UNION {[1..n -> person_ids] : n \in 0..Cardinality(person_ids)} :
        \A i \in DOMAIN ids, j \in DOMAIN ids : ids[i] = ids[j] => i = j}

KnownLists ==
    UNION {{[i \in DOMAIN ids |-> <<ids[i], PersonName(ids[i]), e[i]>>] :
               e \in [DOMAIN ids -> Encs]} : ids \in IdLists(PersonIds)}

\* FaceRecognizer.__init__
Construct(known_faces, tol) ==
    /\ known_face_encodings = [i \in DOMAIN known_faces |-> known_faces[i][3]]
    /\ known_face_ids = [i \in DOMAIN known_faces |-> known_faces[i][1]]
    /\ known_face_names = [i \in DOMAIN known_faces |-> known_faces[i][2]]
    /\ tolerance = tol
    /\ recognized_today = {}

(***************************************************************************)
(* The people table: add_person, remove_person, get_all_face_encodings     *)
(***************************************************************************)
\* the face encoding stored for the person enrolled with a given id
Enrolled(id) == 2 * (id - 1)

NoAdmin == [op |-> "none", name |-> "", returned |-> "None"]

\* the people table holds exactly the known faces of the recognizer, as
\* after get_all_face_encodings and FaceRecognizer(known_faces)
Registered ==
    /\ people = {[id |-> known_face_ids[i], name |-> known_face_names[i],
                  face_encoding |-> known_face_encodings[i]] : i \in DOMAIN known_face_ids}
    /\ people_seq = IF Len(known_face_ids) = 0 THEN 0
                    ELSE CHOOSE m \in PersonIds :
                            /\ \E i \in DOMAIN known_face_ids : known_face_ids[i] = m
                            /\ \A i \in DOMAIN known_face_ids : known_face_ids[i] <= m
    /\ admin = NoAdmin

\* the people table holds every person an attendance call is made for
RegisteredAll ==
    /\ people = {[id |-> p, name |-> PersonName(p), face_encoding |-> Enrolled(p)] :
                    p \in PersonIds}
    /\ people_seq = MaxPeople
    /\ admin = NoAdmin

\* _get_person_id: the id of the person of that name, or None
get_person_id(ppl, name) ==
    IF \E q \in ppl : q.name = name
    THEN (CHOOSE q \in ppl : q.name = name).id
    ELSE NoneId

\* get_all_face_encodings: the rows of people, in any order
get_all_face_encodings(ppl) ==
    {known_faces \in [1..Cardinality(ppl) -> {<<q.id, q.name, q.face_encoding>> : q \in ppl}] :
        \A i \in DOMAIN known_faces, j \in DOMAIN known_faces :
            known_faces[i] = known_faces[j] => i = j}

\* add_person: the INSERT gives the next id; a name already in the table
\* violates UNIQUE and the call returns False, as it does when the database
\* cannot be reached
add_person(name, face_encoding) ==
    /\ people_seq < MaxPeople
    /\ IF ~reachable \/ \E q \in people : q.name = name
       THEN /\ admin' = [op |-> "add", name |-> name, returned |-> "False"]
            /\ UNCHANGED <<people, people_seq>>
       ELSE /\ people' = people \cup {[id |-> people_seq + 1, name |-> name,
                                        face_encoding |-> face_encoding]}
            /\ people_seq' = people_seq + 1
            /\ admin' = [op |-> "add", name |-> name, returned |-> "True"]
    /\ UNCHANGED <<now, attendance, attendance_seq, call, ret, calls, reachable, created,
                   first_written, last_written>>

\* "DELETE FROM attendance WHERE person_id = ?"
DeleteAttendance(att, person_id) == {r \in att : r.person_id # person_id}

\* remove_person: an unknown name, or a database that cannot be reached,
\* returns False; otherwise the person's attendance rows and the person are
\* deleted
remove_person(name) ==
    LET person_id == get_person_id(people, name) IN
    /\ IF ~reachable \/ person_id = NoneId
       THEN /\ admin' = [op |-> "remove", name |-> name, returned |-> "False"]
            /\ UNCHANGED <<people, attendance, created, first_written, last_written>>
       ELSE /\ attendance' = DeleteAttendance(attendance, person_id)
            /\ people' = {q \in people : q.id # person_id}
            /\ admin' = [op |-> "remove", name |-> name, returned |-> "True"]
            /\ created' = [k \in PersonIds \X Dates |->
                              IF RowsFor(attendance', k[1], k[2]) = {} THEN 0 ELSE created[k]]
            /\ first_written' = [k \in PersonIds \X Dates |->
                              IF RowsFor(attendance', k[1], k[2]) = {}
                              THEN Unwritten ELSE first_written[k]]
            /\ last_written' = [k \in PersonIds \X Dates |->
                              IF RowsFor(attendance', k[1], k[2]) = {}
                              THEN NoneT ELSE last_written[k]]
    /\ UNCHANGED <<now, attendance_seq, call, ret, calls, reachable, people_seq>>

Abs(x) == IF x < 0 THEN 0 - x ELSE x

\* face_recognition.face_distance: the Euclidean distance of each known
\* encoding to the probe
face_distance(encodings, probe) ==
    [i \in DOMAIN encodings |-> Abs(encodings[i] - probe)]

\* face_recognition.compare_faces: distance <= tolerance, per known encoding
CompareAcceptsAll(encodings, probe, tol) == [i \in DOMAIN encodings |-> TRUE]

compare_faces(encodings, probe, tol) ==
    [i \in DOMAIN encodings |-> face_distance(encodings, probe)[i] <= tol]

\* np.argmin: the first index of a smallest element; 0 stands for the
\* ValueError it raises on an empty sequence
ArgFirst(d) == IF Len(d) = 0 THEN 0 ELSE 1

ArgMin(d) ==
    IF Len(d) = 0 THEN 0
    ELSE CHOOSE i \in DOMAIN d :
            /\ \A j \in DOMAIN d : d[i] <= d[j]
            /\ \A j \in DOMAIN d : d[j] = d[i] => i <= j

\* "if len(self.known_face_encodings) > 0"
HasKnownAlways(encodings) == TRUE

HasKnown(encodings) == Len(encodings) > 0

Unknown == [name |-> "Unknown", person_id |-> NoneId, confidence |-> 0, error |-> FALSE]
Raised == [name |-> "Unknown", person_id |-> NoneId, confidence |-> 0, error |-> TRUE]

\* lines 70-92 and 154-175: the match of one probe; confidence is the value
\* recognize_face_from_frame reports with it
MatchFace(encodings, ids, names, tol, probe) ==
    LET matches == compare_faces(encodings, probe, tol) IN
    IF HasKnown(encodings)
    THEN LET face_distances == face_distance(encodings, probe)
             best_match_index == ArgMin(face_distances)
         IN IF best_match_index = 0 THEN Raised
            ELSE IF matches[best_match_index]
            THEN [name |-> names[best_match_index],
                  person_id |-> ids[best_match_index],
                  confidence |-> One - face_distances[best_match_index],
                  error |-> FALSE]
            ELSE Unknown
    ELSE Unknown

Match(probe) ==
    MatchFace(known_face_encodings, known_face_ids, known_face_names, tolerance, probe)

\* what the webcam loop keeps of a match: the label and the id
Shown(m) == [name |-> m.name, person_id |-> m.person_id]

NoMatchYet == [name |-> "", person_id |-> NoneId]

\* lines 68-92 of recognize_faces_from_webcam, for one detected face
MatchProbe(probe) ==
    /\ last_probe' = probe
    /\ last_match' = Shown(Match(probe))
    /\ exception' = Match(probe).error
    /\ frame_faces' = <<>>
    /\ results' = <<>>
    /\ UNCHANGED <<storeVars, recVars, sessVars>>

\* recognize_face_from_frame, the detected faces being its input
FaceLists == UNION {[1..n -> Encs] : n \in 0..MaxFaces}

FrameResults(faces) ==
    [i \in DOMAIN faces |->
        [person_id |-> Match(faces[i]).person_id,
         name |-> Match(faces[i]).name,
         confidence |-> Match(faces[i]).confidence]]

RecognizeFrame(faces) ==
    /\ frame_faces' = faces
    /\ exception' = \E i \in DOMAIN faces : Match(faces[i]).error
    /\ results' = IF exception' THEN <<>> ELSE FrameResults(faces)
    /\ last_probe' = NoneT
    /\ last_match' = NoMatchYet
    /\ UNCHANGED <<storeVars, recVars, sessVars>>

MatchIdle ==
    /\ last_probe = NoneT
    /\ last_match = NoMatchYet
    /\ frame_faces = <<>>
    /\ results = <<>>
    /\ exception = FALSE

(***************************************************************************)
(* FaceRecognizer.recognize_faces_from_webcam and reset_recognition_cache  *)
(***************************************************************************)
CamIdle ==
    [pc |-> "idle", on_recognition |-> FALSE, process_every_n_frames |-> 0,
     frame_count |-> 0, analyzed |-> 0]

SessIdle ==
    /\ cam = CamIdle
    /\ frames = 0
    /\ matched = [p \in PersonIds |-> 0]
    /\ notified = [p \in PersonIds |-> 0]
    /\ notified_total = [p \in PersonIds |-> 0]
    /\ epochs = [p \in PersonIds |-> 0]
    /\ first_match_at = [p \in PersonIds |-> NoneT]
    /\ accepted = {}
    /\ failed = {}
    /\ summary = NoneT

\* CLIInterface.start_monitoring_menu.on_person_recognized: the callback the
\* CLI passes, whose return value is dropped
on_person_recognized(st, clock, person_id) == mark_attendance(st, clock, person_id, NoneT)

\* what the mark_attendance call of the callback returned, or "Raised"
CallbackMark(st, clock, person_id) == MarkReturns(st, clock, person_id, NoneT)

\* "if on_recognition and person_id not in self.recognized_today"
ShouldNotifyNoDedup(on_recognition, person_id, recognized) == on_recognition

ShouldNotify(on_recognition, person_id, recognized) ==
    on_recognition /\ person_id \notin recognized

\* "self.recognized_today.add(person_id)"
AddNothing(recognized, person_id) == recognized

AddRecognized(recognized, person_id) == recognized \cup {person_id}

\* what the loop over the detected faces of one frame reads and writes
LoopState ==
    [store |-> Store, recognized_today |-> recognized_today,
     matched |-> matched, notified |-> notified, notified_total |-> notified_total,
     epochs |-> epochs, first_match_at |-> first_match_at, accepted |-> accepted,
     failed |-> failed, last_match |-> last_match, exception |-> exception]

\* the history of an accepted match of person_id, a callback being supplied
NoteMatch(s, person_id, clock) ==
    [s EXCEPT !.matched[person_id] = @ + 1,
              !.epochs[person_id] = IF s.matched[person_id] = 0 THEN @ + 1 ELSE @,
              !.first_match_at[person_id] = IF s.matched[person_id] = 0 THEN clock ELSE @]

\* lines 94-98: the callback, then the dedup mark; an exception that leaves
\* the callback leaves the loop before the mark
Notify(s, person_id, clock) ==
    LET returned == CallbackMark(s.store, clock, person_id)
        called == [s EXCEPT !.store = on_person_recognized(s.store, clock, person_id),
                            !.notified[person_id] = @ + 1,
                            !.notified_total[person_id] = @ + 1]
    IN IF returned = "Raised"
       THEN [called EXCEPT !.exception = TRUE,
                           !.failed = @ \cup {person_id}]
       ELSE [called EXCEPT !.recognized_today = AddRecognized(@, person_id),
                           !.failed = IF returned = "False" THEN @ \cup {person_id} ELSE @]

\* lines 68-98 for one detected face; an exception ends the loop
ProcessFace(s, probe, on_recognition, clock) ==
    LET m == Match(probe)
        seen == [s EXCEPT !.last_match = Shown(m)]
        green == [seen EXCEPT !.accepted = @ \cup {m.person_id}]
    IN IF s.exception THEN s
       ELSE IF m.error THEN [s EXCEPT !.exception = TRUE]
       ELSE IF m.person_id = NoneId THEN seen
       ELSE LET noted == IF on_recognition THEN NoteMatch(green, m.person_id, clock) ELSE green
            IN IF ShouldNotify(on_recognition, m.person_id, s.recognized_today)
               THEN Notify(noted, m.person_id, clock)
               ELSE noted

RECURSIVE ProcessFaces(_, _, _, _)
ProcessFaces(s, faces, on_recognition, clock) ==
    IF faces = <<>> THEN s
    ELSE ProcessFaces(ProcessFace(s, Head(faces), on_recognition, clock),
                      Tail(faces), on_recognition, clock)

\* "if frame_count % process_every_n_frames == 0"
ShouldAnalyzeFromZero(frame_count, n) == (frame_count - 1) % n = 0

ShouldAnalyze(frame_count, n) == frame_count % n = 0

\* the variables become the loop state s
LoopBecomes(s) ==
    /\ StoreBecomes(s.store)
    /\ recognized_today' = s.recognized_today
    /\ matched' = s.matched
    /\ notified' = s.notified
    /\ notified_total' = s.notified_total
    /\ epochs' = s.epochs
    /\ first_match_at' = s.first_match_at
    /\ accepted' = s.accepted
    /\ failed' = s.failed
    /\ last_match' = s.last_match
    /\ exception' = s.exception

\* line 132: "Session complete. Total recognized: {len(self.recognized_today)}"
TotalRecognized(recognized) == Cardinality(recognized)

\* lines 34-47: the call, up to the loop; the webcam may fail to open
StartWebcam(on_recognition, n, opened) ==
    /\ cam.pc = "idle"
    /\ frames < MaxFrames
    /\ cam' = IF opened
              THEN [pc |-> "running", on_recognition |-> on_recognition,
                    process_every_n_frames |-> n, frame_count |-> 0, analyzed |-> 0]
              ELSE CamIdle
    /\ frame_faces' = <<>>
    /\ results' = <<>>
    /\ summary' = NoneT
    /\ UNCHANGED <<storeVars, recVars, last_probe, last_match, exception, frames,
                   matched, notified, notified_total, epochs, first_match_at, accepted,
                   failed>>

\* lines 50-53 and 130-132: cap.read() fails and the loop ends
CaptureFails ==
    /\ cam.pc = "running"
    /\ cam' = CamIdle
    /\ summary' = TotalRecognized(recognized_today)
    /\ UNCHANGED <<storeVars, recVars, matchVars, frames, matched, notified,
                   notified_total, epochs, first_match_at, accepted, failed>>

\* lines 50-132: one iteration of the loop on a captured frame showing the
\* given faces; quit is the 'q' or ESC key, after which the summary is
\* printed; an exception leaves the call before that
ProcessFrame(faces, quit) ==
    /\ cam.pc = "running"
    /\ frames < MaxFrames
    /\ frames' = frames + 1
    /\ LET frame_count == cam.frame_count + 1
           analyze == ShouldAnalyze(frame_count, cam.process_every_n_frames)
           s == IF analyze
                THEN ProcessFaces(LoopState, faces, cam.on_recognition, now)
                ELSE LoopState
       IN /\ LoopBecomes(s)
          /\ cam' = IF quit \/ s.exception
                    THEN CamIdle
                    ELSE [cam EXCEPT !.frame_count = frame_count,
                                     !.analyzed = IF analyze THEN @ + 1 ELSE @]
          /\ summary' = IF quit /\ ~s.exception
                        THEN TotalRecognized(s.recognized_today)
                        ELSE summary
    /\ UNCHANGED <<last_probe, frame_faces, results, now, call, ret, calls, reachable,
                   people, people_seq, admin,
                   known_face_encodings, known_face_ids, known_face_names, tolerance>>

\* what reset_recognition_cache leaves of the set
ClearNothing(recognized) == recognized

Cleared(recognized) == {}

\* reset_recognition_cache, called between two runs of the loop
ResetRecognitionCache ==
    /\ cam.pc = "idle"
    /\ recognized_today' = Cleared(recognized_today)
    /\ matched' = [p \in PersonIds |-> 0]
    /\ notified' = [p \in PersonIds |-> 0]
    /\ first_match_at' = [p \in PersonIds |-> NoneT]
    /\ accepted' = {}
    /\ failed' = {}
    /\ UNCHANGED <<storeVars, matchVars, cam, frames, notified_total, epochs, summary,
                   known_face_encodings, known_face_ids, known_face_names, tolerance>>

\* update_known_faces, called between two runs of the loop with the list
\* get_all_face_encodings returns by then
UpdateKnownFaces(known_faces) ==
    /\ cam.pc = "idle"
    /\ known_face_encodings' = [i \in DOMAIN known_faces |-> known_faces[i][3]]
    /\ known_face_ids' = [i \in DOMAIN known_faces |-> known_faces[i][1]]
    /\ known_face_names' = [i \in DOMAIN known_faces |-> known_faces[i][2]]
    /\ UNCHANGED <<storeVars, matchVars, sessVars, tolerance, recognized_today>>

(***************************************************************************)
(* Spec: the attendance store under concurrent mark_attendance calls       *)
(***************************************************************************)
Init ==
    /\ StoreInit
    /\ Construct(<<>>, DefaultTolerance)
    /\ RegisteredAll
    /\ MatchIdle
    /\ SessIdle

Next ==
    \/ Tick /\ UNCHANGED <<recVars, matchVars, sessVars>>
    \/ \E w \in Workers, p \in PersonIds, t \in Times \cup {NoneT} :
          BeginMark(w, p, t) /\ UNCHANGED <<recVars, matchVars, sessVars>>
    \/ \E w \in Workers : FinishMark(w) /\ UNCHANGED <<recVars, matchVars, sessVars>>

Spec == Init /\ [][Next]_vars

(***************************************************************************)
(* SpecMatch: a recognizer constructed with any list of known faces and    *)
(* any tolerance, matching any probe: matching reads the recognizer and    *)
(* writes nothing of it, so one call per behaviour covers every call       *)
(***************************************************************************)
MatchInit ==
    /\ StoreInit
    /\ \E known_faces \in KnownLists, tol \in Tolerances : Construct(known_faces, tol)
    /\ Registered
    /\ MatchIdle
    /\ SessIdle

\* one call on the recognizer just constructed
MatchNext ==
    \/ \E probe \in Encs : MatchIdle /\ MatchProbe(probe)
    \/ \E faces \in FaceLists : MatchIdle /\ RecognizeFrame(faces)

SpecMatch == MatchInit /\ [][MatchNext]_vars

(***************************************************************************)
(* SpecSession: one recognizer, constructed as start_monitoring_menu does  *)
(* from the enrolled people or from no one, running its webcam loop, with  *)
(* the CLI's callback or none, on a database that stays reachable (its     *)
(* failures are those of SpecOutage)                                       *)
(***************************************************************************)
\* the people enrolled in the registry, Alice and Bob
EnrolledIds == {1, 2}

\* what get_all_face_encodings returns when some or all of them are enrolled
EnrolledLists ==
    {[i \in DOMAIN ids |-> <<ids[i], PersonName(ids[i]), Enrolled(ids[i])>>] :
        ids \in IdLists(EnrolledIds)}

SessionInit ==
    /\ StoreInit
    /\ \E known_faces \in EnrolledLists, tol \in Tolerances : Construct(known_faces, tol)
    /\ Registered
    /\ MatchIdle
    /\ SessIdle

SessionTick == Tick /\ UNCHANGED <<recVars, matchVars, sessVars>>

\* the faces shown to the camera: each enrolled person's own face, and a
\* stranger's
Stranger == MaxEnc

SessionProbes == {Enrolled(id) : id \in EnrolledIds} \cup {Stranger}

SessionFaceLists == UNION {[1..n -> SessionProbes] : n \in 0..MaxFaces}

SessionNext ==
    \/ SessionTick
    \/ \E cb \in BOOLEAN, n \in Strides, opened \in BOOLEAN : StartWebcam(cb, n, opened)
    \/ CaptureFails
    \/ \E faces \in SessionFaceLists, quit \in BOOLEAN : ProcessFrame(faces, quit)
    \/ ResetRecognitionCache

SpecSession == SessionInit /\ [][SessionNext]_vars

(***************************************************************************)
(* SpecEmptyRegistry: a recognizer constructed with no known face and any  *)
(* tolerance, running its webcam loop and recognize_face_from_frame on any *)
(* faces                                                                   *)
(***************************************************************************)
EmptyInit ==
    /\ StoreInit
    /\ \E tol \in 0..MaxEnc : Construct(<<>>, tol)
    /\ Registered
    /\ MatchIdle
    /\ SessIdle

\* recognize_face_from_frame, called while the webcam loop is not running
IdleRecognizeFrame(faces) == cam.pc = "idle" /\ RecognizeFrame(faces)

EmptyNext ==
    \/ SessionTick
    \/ \E cb \in BOOLEAN, n \in Strides, opened \in BOOLEAN : StartWebcam(cb, n, opened)
    \/ CaptureFails
    \/ \E faces \in FaceLists, quit \in BOOLEAN : ProcessFrame(faces, quit)
    \/ ResetRecognitionCache
    \/ \E faces \in FaceLists : IdleRecognizeFrame(faces)

SpecEmptyRegistry == EmptyInit /\ [][EmptyNext]_vars

(***************************************************************************)
(* SpecOutage: the recognizer start_monitoring_menu constructs (some people *)
(* enrolled, default tolerance, the CLI's callback) running its webcam     *)
(* loop while the database becomes unreachable and reachable again         *)
(***************************************************************************)
OutageInit ==
    /\ StoreInit
    /\ \E known_faces \in EnrolledLists \ {<<>>} : Construct(known_faces, DefaultTolerance)
    /\ Registered
    /\ MatchIdle
    /\ SessIdle

Outage == \E up \in BOOLEAN : SetReachable(up) /\ UNCHANGED <<recVars, matchVars, sessVars>>

OutageNext ==
    \/ SessionTick
    \/ Outage
    \/ \E n \in Strides, opened \in BOOLEAN : StartWebcam(TRUE, n, opened)
    \/ CaptureFails
    \/ \E faces \in SessionFaceLists, quit \in BOOLEAN : ProcessFrame(faces, quit)

SpecOutage == OutageInit /\ [][OutageNext]_vars

(***************************************************************************)
(* SpecUpdate: a recognizer constructed from the people enrolled at the    *)
(* time, running its webcam loop with the CLI's callback, and given the    *)
(* registry's later lists by update_known_faces between the runs           *)
(***************************************************************************)
UpdateInit ==
    /\ StoreInit
    /\ \E known_faces \in EnrolledLists : Construct(known_faces, DefaultTolerance)
    /\ Registered
    /\ MatchIdle
    /\ SessIdle

UpdateNext ==
    \/ \E n \in Strides, opened \in BOOLEAN : StartWebcam(TRUE, n, opened)
    \/ CaptureFails
    \/ \E faces \in SessionFaceLists, quit \in BOOLEAN : ProcessFrame(faces, quit)
    \/ \E known_faces \in EnrolledLists : UpdateKnownFaces(known_faces)

SpecUpdate == UpdateInit /\ [][UpdateNext]_vars

(***************************************************************************)
(* SpecRegistry: a database that starts empty; people are added and        *)
(* removed through one CLI process while another runs start_monitoring_menu *)
(* on the same database file: its recognizer keeps the list of known faces *)
(* it was constructed with                                                 *)
(***************************************************************************)
\* the names people are registered under, and the face of each
Names == {PersonName(id) : id \in EnrolledIds}

FaceOf(name) == Enrolled(CHOOSE id \in EnrolledIds : PersonName(id) = name)

\* start_monitoring_menu: with no people it returns; otherwise it constructs
\* a recognizer from get_all_face_encodings and starts its loop with
\* on_person_recognized and the default stride
start_monitoring_menu(known_faces, opened) ==
    /\ cam.pc = "idle"
    /\ frames < MaxFrames
    /\ IF known_faces = <<>>
       THEN UNCHANGED <<recVars, matchVars, sessVars>>
       ELSE /\ known_face_encodings' = [i \in DOMAIN known_faces |-> known_faces[i][3]]
            /\ known_face_ids' = [i \in DOMAIN known_faces |-> known_faces[i][1]]
            /\ known_face_names' = [i \in DOMAIN known_faces |-> known_faces[i][2]]
            /\ tolerance' = DefaultTolerance
            /\ recognized_today' = {}
            /\ cam' = IF opened
                      THEN [pc |-> "running", on_recognition |-> TRUE,
                            process_every_n_frames |-> DefaultStride, frame_count |-> 0,
                            analyzed |-> 0]
                      ELSE CamIdle
            /\ matched' = [p \in PersonIds |-> 0]
            /\ notified' = [p \in PersonIds |-> 0]
            /\ notified_total' = [p \in PersonIds |-> 0]
            /\ epochs' = [p \in PersonIds |-> 0]
            /\ first_match_at' = [p \in PersonIds |-> NoneT]
            /\ accepted' = {}
            /\ failed' = {}
            /\ summary' = NoneT
            /\ frame_faces' = <<>>
            /\ results' = <<>>
            /\ UNCHANGED <<last_probe, last_match, exception, frames>>
    /\ UNCHANGED storeVars

RegistryInit ==
    /\ StoreInit
    /\ Construct(<<>>, DefaultTolerance)
    /\ Registered
    /\ MatchIdle
    /\ SessIdle

RegistryNext ==
    \/ \E name \in Names :
          add_person(name, FaceOf(name)) /\ UNCHANGED <<recVars, matchVars, sessVars>>
    \/ \E name \in Names : remove_person(name) /\ UNCHANGED <<recVars, matchVars, sessVars>>
    \/ \E known_faces \in get_all_face_encodings(people), opened \in BOOLEAN :
          start_monitoring_menu(known_faces, opened)
    \/ CaptureFails
    \/ \E faces \in SessionFaceLists, quit \in BOOLEAN : ProcessFrame(faces, quit)

SpecRegistry == RegistryInit /\ [][RegistryNext]_vars

(***************************************************************************)
(* Properties of the attendance store (specification Spec)                 *)
(***************************************************************************)
\* the worker w completes its mark_attendance call in this step
Completes(w) == call[w].pc = "selected" /\ call'[w].pc = "idle"

\* C1: in every reachable state of the store, whatever the interleaving of the
\* workers' mark_attendance calls, the attendance table holds at most one row
\* for each (person_id, date) pair.
C1_OneRecordPerPersonDate ==
    \A r1 \in attendance, r2 \in attendance :
        (r1.person_id = r2.person_id /\ r1.date = r2.date) => r1 = r2

\* two workers raced for the first record of a (person_id, date): one INSERT
\* was applied, the other hit the UNIQUE constraint
C1_Witness ==
    \E w \in Workers, k \in PersonIds \X Dates :
        /\ ret[w] = "False"
        /\ created[k] = 1
        /\ Cardinality(RowsFor(attendance, k[1], k[2])) = 1

\* C2: a worker whose SELECT saw no record, and whose INSERT then meets the
\* record another worker created meanwhile, is treated as PRESENT_SEEN: its
\* timestamp is written to time_out and its call returns True.
C2_ConflictRetriedAsUpdate ==
    [][\A w \in Workers :
          (/\ Completes(w)
           /\ ~call[w].existing
           /\ RowsFor(attendance, call[w].person_id, call[w].today) # {})
          => /\ ret'[w] = "True"
             /\ \A r \in RowsFor(attendance', call[w].person_id, call[w].today) :
                    r.time_out = call[w].time_in]_vars

\* C3: a mark_attendance(person_id, t) applied while (person_id, today) has no
\* record creates exactly the record (time_in = t, time_out = None, status =
\* present) and returns True, and no (person_id, date) is ever created twice:
\* a record exists exactly when one INSERT for its key succeeded.
C3_CreatedOnceWithTimeIn ==
    [][/\ \A w \in Workers :
             (/\ Completes(w)
              /\ RowsFor(attendance, call[w].person_id, call[w].today) = {})
             => /\ ret'[w] = "True"
                /\ \E r \in attendance' \ attendance :
                      /\ RowsFor(attendance', call[w].person_id, call[w].today) = {r}
                      /\ r.time_in = call[w].time_in
                      /\ r.time_out = NoneT
                      /\ r.status = "present"
       /\ \A k \in PersonIds \X Dates :
             /\ created'[k] <= 1
             /\ (RowsFor(attendance', k[1], k[2]) # {}) <=> (created'[k] = 1)]_vars

\* a record was created with an explicit time_in, and a second call for the
\* same (person_id, date) has been processed after it
C3_Witness ==
    \E k \in PersonIds \X Dates :
        /\ created[k] = 1
        /\ first_written[k] # Unwritten
        /\ last_written[k] # NoneT
        /\ \E r \in RowsFor(attendance, k[1], k[2]) : r.time_in = first_written[k]

C6_NotifiedExactlyOnce ==
    \A p \in PersonIds :
        /\ notified[p] <= 1
        /\ (matched[p] >= 1) <=> (notified[p] = 1)

\* an identity matched in two or more analyzed frames, notified once
C6_Witness ==
    \E p \in PersonIds : matched[p] >= 2 /\ notified[p] = 1 /\ p \in recognized_today

\* C7, as claimed: the step that processes the second accepted observation of
\* an identity, on the day of the first one, emits no further event and leaves
\* the identity's record of the day with time_out = that observation's
\* timestamp.
C7_SecondObservationSetsTimeOut ==
    [][\A p \in PersonIds :
          (/\ matched[p] = 1
           /\ matched'[p] = 2
           /\ DateOf(first_match_at[p]) = DateOf(now))
          => /\ notified'[p] = 1
             /\ \E r \in RowsFor(attendance', p, DateOf(now)) : r.time_out = now]_vars

\* C7, amended: once an identity was observed twice (accepted, a callback
\* supplied), exactly one event was emitted for it and its record of the day
\* of the first observation is as the write of that observation left it:
\* created with time_in = the first observation's timestamp and time_out =
\* None, or, if it existed, updated to time_out = the first observation's
\* timestamp. The second observation wrote nothing.
C7_SecondObservationWritesNothing ==
    \A p \in PersonIds :
        matched[p] >= 2 =>
            /\ notified[p] = 1
            /\ RowsFor(attendance, p, DateOf(first_match_at[p])) # {}
            /\ \A r \in RowsFor(attendance, p, DateOf(first_match_at[p])) :
                  \/ r.time_in = first_match_at[p] /\ r.time_out = NoneT
                  \/ r.time_out = first_match_at[p]

\* an identity observed twice, the second time at a later tick of the same
\* day, whose record still has no time_out
C7_Witness ==
    \E p \in PersonIds :
        /\ matched[p] = 2
        /\ notified_total[p] = 1
        /\ now > first_match_at[p]
        /\ DateOf(now) = DateOf(first_match_at[p])
        /\ \E r \in RowsFor(attendance, p, DateOf(now)) :
              r.time_in = first_match_at[p] /\ r.time_out = NoneT

\* C8: the dedup set holds only identities matched since the recognizer was
\* constructed or last reset (so it is empty at the start of the session and
\* right after a reset), and every identity was notified once in each period
\* between resets in which it was matched with a callback supplied: after a
\* reset the next accepted match fires again.
C8_DedupSetClearedAtStartAndReset ==
    \A p \in PersonIds :
        /\ p \in recognized_today => matched[p] >= 1
        /\ notified_total[p] = epochs[p]

\* an identity notified before a reset and again after it
C8_Witness ==
    \E p \in PersonIds :
        /\ notified_total[p] = 2
        /\ epochs[p] = 2
        /\ p \in recognized_today

(***************************************************************************)
(* Properties of matching (specification SpecMatch)                        *)
(***************************************************************************)
\* the smallest distance of a known encoding to the probe
MinDistance(probe) ==
    CHOOSE d \in {Abs(known_face_encodings[i] - probe) : i \in DOMAIN known_face_encodings} :
        \A i \in DOMAIN known_face_encodings : d <= Abs(known_face_encodings[i] - probe)

\* the match m of the probe selects an identity at the smallest distance and
\* accepts it iff that distance is within the tolerance
NearestWithinTolerance(m, probe) ==
    /\ (m.person_id # NoneId) <=> (MinDistance(probe) <= tolerance)
    /\ (m.person_id # NoneId) =>
          \E i \in DOMAIN known_face_encodings :
              /\ known_face_ids[i] = m.person_id
              /\ known_face_names[i] = m.name
              /\ Abs(known_face_encodings[i] - probe) = MinDistance(probe)
    /\ (m.person_id = NoneId) => (m.name = "Unknown")

\* C9: with a non-empty list of known faces, for every probe and tolerance,
\* the match made by the webcam loop and each match returned by
\* recognize_face_from_frame names an identity at the minimum distance iff
\* that minimum is <= tolerance, and otherwise carries person_id None and the
\* name Unknown.
C9_NearestAcceptedIffWithinTolerance ==
    Len(known_face_encodings) > 0 =>
        /\ ~exception
        /\ (last_probe # NoneT) => NearestWithinTolerance(last_match, last_probe)
        /\ Len(results) = Len(frame_faces)
        /\ \A i \in DOMAIN results : NearestWithinTolerance(results[i], frame_faces[i])

\* the nearest identity is not the first of the list and is accepted, while
\* the first one is itself within the tolerance
C9_Witness ==
    /\ Len(known_face_encodings) = 2
    /\ last_probe # NoneT
    /\ last_match.person_id = known_face_ids[2]
    /\ Abs(known_face_encodings[1] - last_probe) <= tolerance
    /\ Abs(known_face_encodings[2] - last_probe) < Abs(known_face_encodings[1] - last_probe)

(***************************************************************************)
(* Properties of a recognizer without known faces (SpecEmptyRegistry)      *)
(***************************************************************************)
\* C10: with no known face, for every probe and every tolerance, no call
\* raises, the webcam loop's match and every result of
\* recognize_face_from_frame is Unknown with person_id None, and no callback
\* is called, nothing enters the dedup set and the attendance table is not
\* written.
C10_EmptyRegistryRejectsAll ==
    Len(known_face_encodings) = 0 =>
        /\ ~exception
        /\ last_match \in {NoMatchYet, Shown(Unknown)}
        /\ Len(results) = Len(frame_faces)
        /\ \A i \in DOMAIN results :
              results[i] = [person_id |-> NoneId, name |-> "Unknown", confidence |-> 0]
        /\ \A p \in PersonIds : notified_total[p] = 0 /\ matched[p] = 0
        /\ recognized_today = {}
        /\ attendance = {}
        /\ attendance_seq = 0

\* a face was matched by the webcam loop, a callback being supplied, under a
\* tolerance that no distance exceeds
C10_Witness ==
    /\ Len(known_face_encodings) = 0
    /\ tolerance = MaxEnc
    /\ cam.pc = "running"
    /\ cam.on_recognition
    /\ last_match = Shown(Unknown)

\* the lowest id among the known identities at the smallest distance to the
\* probe
LowestNearestId(probe) ==
    LET nearest == {known_face_ids[i] : i \in {j \in DOMAIN known_face_encodings :
                        Abs(known_face_encodings[j] - probe) = MinDistance(probe)}}
    IN CHOOSE id \in nearest : \A other \in nearest : id <= other

\* C11: whatever the order in which the known faces were listed, an accepted
\* match, by the webcam loop or by recognize_face_from_frame, names the lowest
\* id among the identities at the minimum distance to the probe.
C11_TieSelectsLowestId ==
    Len(known_face_encodings) > 0 =>
        /\ (last_probe # NoneT /\ last_match.person_id # NoneId)
              => last_match.person_id = LowestNearestId(last_probe)
        /\ \A i \in DOMAIN results :
              results[i].person_id # NoneId
                 => results[i].person_id = LowestNearestId(frame_faces[i])

(***************************************************************************)
(* Further properties of a monitoring session: C12 under SpecOutage, C13   *)
(* and C14 under SpecSession                                               *)
(***************************************************************************)
\* no known identity is within the tolerance of the probe
Rejected(probe) ==
    \/ Len(known_face_encodings) = 0
    \/ MinDistance(probe) > tolerance

\* C12: in every state of a session, whether or not the store can be
\* reached, for every probe and with or without a callback, the loop body
\* for one detected face (a) when no known identity is within the tolerance
\* of the probe, labels the face Unknown, calls no callback and leaves the
\* dedup set and the attendance table as they were,
\* and (b) calls the callback for an identity only if a callback is supplied,
\* the identity is at the minimum distance, that distance is within the
\* tolerance, and the identity is not yet in the dedup set.
C12_RejectedProbeChangesNothing ==
    \A probe \in Encs, on_recognition \in BOOLEAN :
        LET before == LoopState
            s == ProcessFace(before, probe, on_recognition, now)
        IN IF Rejected(probe)
           THEN s = [before EXCEPT !.last_match = Shown(Unknown)]
           ELSE \A p \in PersonIds :
                   s.notified_total[p] # notified_total[p] =>
                      /\ on_recognition
                      /\ p \notin recognized_today
                      /\ \E i \in DOMAIN known_face_ids :
                            /\ known_face_ids[i] = p
                            /\ Abs(known_face_encodings[i] - probe) = MinDistance(probe)

\* in a running session with the default tolerance and a callback, after one
\* identity was notified and recorded, the face of a stranger was labelled
\* Unknown: the dedup set and the table still hold that one identity only
C12_Witness ==
    /\ cam.pc = "running"
    /\ cam.on_recognition
    /\ tolerance = DefaultTolerance
    /\ Len(known_face_encodings) > 0
    /\ Rejected(Stranger)
    /\ last_match = Shown(Unknown)
    /\ Cardinality(recognized_today) = 1
    /\ Cardinality(attendance) = 1
    /\ \A r \in attendance : r.person_id \in recognized_today /\ r.time_out = NoneT
    /\ \A p \in PersonIds : notified_total[p] = IF p \in recognized_today THEN 1 ELSE 0

\* C13: a captured frame whose index (the count of the frames captured in
\* this run of the loop, the frame included) is not a multiple of the stride
\* causes no match, notification, dedup mark or attendance write; the index
\* grows by one with each captured frame, and the frame is analyzed exactly
\* when its index is a multiple of the stride.
C13_AnalyzedIffIndexMultipleOfStride ==
    [][(cam.pc = "running" /\ frames' = frames + 1) =>
          LET frame_index == cam.frame_count + 1
              N == cam.process_every_n_frames
          IN /\ (frame_index % N # 0) =>
                   /\ attendance' = attendance
                   /\ attendance_seq' = attendance_seq
                   /\ recognized_today' = recognized_today
                   /\ matched' = matched
                   /\ notified_total' = notified_total
                   /\ last_match' = last_match
             /\ (cam'.pc = "running") =>
                   /\ cam'.frame_count = frame_index
                   /\ cam'.analyzed = cam.analyzed + (IF frame_index % N = 0 THEN 1 ELSE 0)]_vars

\* with the default stride, the first run of the loop has captured two
\* frames, of which the second was analyzed and notified an identity
C13_Witness ==
    /\ cam.pc = "running"
    /\ cam.process_every_n_frames = DefaultStride
    /\ cam.frame_count = 2
    /\ cam.analyzed = 1
    /\ frames = 2
    /\ recognized_today # {}
    /\ attendance # {}

\* C14: when a run of the loop ends by the quit key or a failed capture, the
\* count it prints is the number of distinct identities that had an accepted
\* match since the recognizer was constructed or last reset, whether or not a
\* callback was supplied.
C14_SummaryCountsAcceptedIdentities ==
    [][(cam.pc = "running" /\ cam'.pc = "idle" /\ ~exception')
          => summary' = Cardinality(accepted')]_vars

(***************************************************************************)
(* Properties of a session whose store fails (specification SpecOutage)    *)
(***************************************************************************)
\* C15: in the step in which the attendance write of an identity's event
\* fails, the identity is not added to the dedup set, so that its next
\* accepted match calls the callback again.
C15_FailedWriteLeavesDedupSetAsItWas ==
    [][\A p \in PersonIds :
          (p \in failed' /\ p \notin failed) => p \notin recognized_today']_vars

\* C16: a step in which the attendance write of an event fails lets no
\* exception out of the callback: the loop is still running after the frame,
\* or it ended by the quit key and printed its summary.
C16_FailedWriteDoesNotEndLoop ==
    [][(failed' # failed) =>
          /\ ~exception'
          /\ \/ cam'.pc = "running"
             \/ summary' = TotalRecognized(recognized_today')]_vars

\* in one run of the loop, the write for one identity failed, and at a later
\* tick another identity was matched, notified and recorded
C16_Witness ==
    \E p \in PersonIds, q \in PersonIds :
        /\ cam.pc = "running"
        /\ cam.frame_count = frames
        /\ p \in failed
        /\ RowsFor(attendance, p, DateOf(first_match_at[p])) = {}
        /\ q \in recognized_today \ failed
        /\ first_match_at[p] # NoneT
        /\ first_match_at[p] < first_match_at[q]
        /\ \E r \in attendance : r.person_id = q /\ r.time_in = first_match_at[q]

\* C17: whenever no loop is running (before the first run and after every
\* stop), an identity is in the dedup set exactly when the attendance write
\* of its event was applied.
C17_StopLeavesWriteAndMarkTogether ==
    (cam.pc = "idle") =>
        \A p \in PersonIds :
            (p \in recognized_today) <=> (notified[p] >= 1 /\ p \notin failed)

(***************************************************************************)
(* Properties of the known faces of a recognizer (specification SpecUpdate) *)
(***************************************************************************)
\* C18: no step taken on a constructed recognizer changes its lists of known
\* encodings, ids and names.
C18_KnownFacesNeverChange ==
    [][/\ known_face_encodings' = known_face_encodings
       /\ known_face_ids' = known_face_ids
       /\ known_face_names' = known_face_names]_vars

(***************************************************************************)
(* Further properties of matching (specification SpecMatch)                *)
(***************************************************************************)
\* x clamped to the range [0, 1]
Clamped(x) == IF x < 0 THEN 0 ELSE IF x > One THEN One ELSE x

\* C19: every result of recognize_face_from_frame carries the confidence
\* 1 - (minimum distance), clamped to [0, 1], when the match is accepted, and
\* 0 when it is rejected, for every tolerance.
C19_ConfidenceClampedToUnitRange ==
    Len(known_face_encodings) > 0 =>
        \A i \in DOMAIN results :
            results[i].confidence =
                IF results[i].person_id # NoneId
                THEN Clamped(One - MinDistance(frame_faces[i]))
                ELSE 0

(***************************************************************************)
(* Further properties of the attendance store (specification Spec)         *)
(***************************************************************************)
\* C20: a mark_attendance call looks up the record of (person_id, date of the
\* clock when it is called), whatever the date of the time_in it is given,
\* and its write creates or changes no record but the one of that key.
C20_KeyedByClockDate ==
    [][\A w \in Workers :
          /\ (call[w].pc = "idle" /\ call'[w].pc = "selected") =>
                /\ call'[w].today = DateOf(now)
                /\ call'[w].existing =
                      (RowsFor(attendance, call'[w].person_id, DateOf(now)) # {})
          /\ Completes(w) =>
                /\ \A r \in attendance' \ attendance :
                      r.person_id = call[w].person_id /\ r.date = call[w].today
                /\ \A r \in attendance :
                      (r.person_id # call[w].person_id \/ r.date # call[w].today)
                         => r \in attendance']_vars

\* a record whose time_in and time_out are both timestamps of another day
\* than the record's date
C20_Witness ==
    \E r \in attendance :
        /\ DateOf(r.time_in) # r.date
        /\ r.time_out # NoneT
        /\ DateOf(r.time_out) # r.date
        /\ created[<<r.person_id, r.date>>] = 1

(***************************************************************************)
(* Properties of the two tables (specification SpecRegistry)               *)
(***************************************************************************)
\* C21: in every state reached by add_person, remove_person and the
\* mark_attendance calls of monitoring sessions, the person_id of every
\* attendance record is the id of a row of the people table.
C21_AttendanceRefersToExistingPerson ==
    \A r \in attendance : \E q \in people : q.id = r.person_id

====
